---- MODULE Spec2Model ----
\* Event listing / booking application (gislo-git/Dev-Events): the data-model
\* layer (event and booking pre-save hooks against the document store) and the
\* memoized database connection.
EXTENDS Integers, Sequences, FiniteSets, TLC

\* ------------------------------------------------------------------ bounds

\* Number of event documents that can be constructed (one _id each).
MaxEvents == 3
\* Number of booking documents that can be constructed.
MaxBookings == 2
\* Number of requests being served concurrently.
NumProcs == 2

\* maxAttempts of the slug retry loop.
MaxAttempts == 5

\* Length of the titles submitted where the slug of every title is looked at.
MaxTitleLen == 3

\* Length of the emails submitted where every email is looked at.
MaxEmailLen == 5

\* Number of connect attempts that can be started.
MaxConnects == 3
\* Number of concurrent callers of connectToDatabase.
NumCallers == 3

Procs == 1..NumProcs
Callers == 1..NumCallers
EventIds == 1..MaxEvents
BookingIds == 1..MaxBookings

\* ------------------------------------------------------------------ strings
\* A string is a sequence of one-character strings.

DigitChars == <<"0", "1", "2", "3", "4", "5", "6", "7", "8", "9">>
Digits == {DigitChars[i] : i \in 1..Len(DigitChars)}

\* [a-z0-9], for the letters that occur.
LowerAlnum == {"a", "b", "m", "p", "x", "y"} \cup Digits
Whitespace == {" "}

toLowerCaseChar(c) ==
    IF c = "A" THEN "a" ELSE IF c = "B" THEN "b" ELSE IF c = "P" THEN "p"
    ELSE IF c = "M" THEN "m" ELSE c

toLowerCase(s) == [i \in 1..Len(s) |-> toLowerCaseChar(s[i])]

RECURSIVE DropWhileIn(_, _)
DropWhileIn(s, S) ==
    IF s # <<>> /\ Head(s) \in S THEN DropWhileIn(Tail(s), S) ELSE s

RECURSIVE DropWhileNotIn(_, _)
DropWhileNotIn(s, S) ==
    IF s # <<>> /\ Head(s) \notin S THEN DropWhileNotIn(Tail(s), S) ELSE s

RECURSIVE DropEndIn(_, _)
DropEndIn(s, S) ==
    IF s # <<>> /\ s[Len(s)] \in S THEN DropEndIn(SubSeq(s, 1, Len(s) - 1), S) ELSE s

\* s.replace(/^X+|X+$/g, '') for a character class X.
StripEnds(s, S) == DropEndIn(DropWhileIn(s, S), S)

\* String.prototype.trim
trim(s) == StripEnds(s, Whitespace)

\* s.replace(/[X]+/g, r): every maximal run of characters of S becomes r.
RECURSIVE ReplaceRunsIn(_, _, _)
ReplaceRunsIn(s, S, r) ==
    IF s = <<>> THEN <<>>
    ELSE IF Head(s) \in S
         THEN <<r>> \o ReplaceRunsIn(DropWhileIn(Tail(s), S), S, r)
         ELSE <<Head(s)>> \o ReplaceRunsIn(Tail(s), S, r)

\* s.replace(/[^X]+/g, r): every maximal run of characters outside S becomes r.
RECURSIVE ReplaceRunsNotIn(_, _, _)
ReplaceRunsNotIn(s, S, r) ==
    IF s = <<>> THEN <<>>
    ELSE IF Head(s) \notin S
         THEN <<r>> \o ReplaceRunsNotIn(DropWhileNotIn(Tail(s), S), S, r)
         ELSE <<Head(s)>> \o ReplaceRunsNotIn(Tail(s), S, r)

\* s.replace(/[^X]/g, ''): delete every character outside S.
KeepOnly(s, S) == SelectSeq(s, LAMBDA c : c \in S)

NoWsOrAt(s) == \A i \in 1..Len(s) : s[i] \notin Whitespace \cup {"@"}

\* A validator that accepts every email.
isValidEmailAlways(s) == TRUE

\* /^[^\s@]+@[^\s@]+\.[^\s@]+$/.test(email)
isValidEmail(s) ==
    \E i \in 1..Len(s), j \in 1..Len(s) :
        /\ s[i] = "@" /\ s[j] = "."
        /\ 1 < i /\ i + 1 < j /\ j < Len(s)
        /\ NoWsOrAt(SubSeq(s, 1, i - 1))
        /\ NoWsOrAt(SubSeq(s, i + 1, j - 1))
        /\ NoWsOrAt(SubSeq(s, j + 1, Len(s)))

\* event.model.ts: trim, lowercase, non-alphanumeric runs to '-', trim dashes.
slugify(title) ==
    StripEnds(ReplaceRunsNotIn(toLowerCase(trim(title)), LowerAlnum, "-"), {"-"})

\* part_003 / part_004: lowercase, trim, delete invalid characters, whitespace
\* runs to '-', collapse dashes (no trimming of leading or trailing dashes).
generateSlug(title) ==
    ReplaceRunsIn(
        ReplaceRunsIn(
            KeepOnly(trim(toLowerCase(title)), LowerAlnum \cup Whitespace \cup {"-"}),
            Whitespace, "-"),
        {"-"}, "-")

\* ------------------------------------------------------------------ date and time

\* /^\d+$/
AllDigits(s) == \A i \in 1..Len(s) : s[i] \in Digits

DigitValue(c) == (CHOOSE i \in 1..Len(DigitChars) : DigitChars[i] = c) - 1

\* Number(s) of a string of digits.
RECURSIVE Number(_)
Number(s) ==
    IF s = <<>> THEN 0
    ELSE 10 * Number(SubSeq(s, 1, Len(s) - 1)) + DigitValue(s[Len(s)])

\* String(n) of a natural number.
RECURSIVE String(_)
String(n) ==
    IF n < 10 THEN <<DigitChars[n + 1]>>
    ELSE String(n \div 10) \o <<DigitChars[(n % 10) + 1]>>

\* s.padStart(n, c)
padStart(s, n, c) ==
    IF Len(s) >= n THEN s ELSE [i \in 1..(n - Len(s)) |-> c] \o s

\* What a normalizer gives: the normalized string, or the error it throws.
Returns(s) == [error |-> "", value |-> s]
Throws(e) == [error |-> e, value |-> <<>>]

\* /^(\d{1,2}):(\d{2})$/, and with seconds /^(\d{1,2}):(\d{2})(?::(\d{2}))?$/
MatchesHourMinute(s, seconds) ==
    \E k \in 1..2 :
        /\ Len(s) >= k + 3
        /\ AllDigits(SubSeq(s, 1, k))
        /\ s[k + 1] = ":"
        /\ AllDigits(SubSeq(s, k + 2, k + 3))
        /\ \/ Len(s) = k + 3
           \/ /\ seconds
              /\ Len(s) = k + 6
              /\ s[k + 4] = ":"
              /\ AllDigits(SubSeq(s, k + 5, k + 6))

\* match[1] and match[2] of a string that matches.
HourDigits(s) == IF s[2] = ":" THEN SubSeq(s, 1, 1) ELSE SubSeq(s, 1, 2)
MinuteDigits(s) == SubSeq(s, Len(HourDigits(s)) + 2, Len(HourDigits(s)) + 3)

\* A normalizer that accepts every hour and minute.
InRangeAlways(hours, minutes) == TRUE

\* !(hours < 0 || hours > 23 || minutes < 0 || minutes > 59)
InRange(hours, minutes) ==
    ~(hours < 0 \/ hours > 23 \/ minutes < 0 \/ minutes > 59)

\* `${hh}:${mm}` with both padded to two digits.
HHMM(hours, minutes) ==
    padStart(String(hours), 2, "0") \o <<":">> \o padStart(String(minutes), 2, "0")

\* What the three revisions do once the 24-hour pattern has matched.
Normalize24(s) ==
    LET hours == Number(HourDigits(s))
        minutes == Number(MinuteDigits(s))
    IN IF InRange(hours, minutes)
       THEN Returns(HHMM(hours, minutes))
       ELSE Throws("time_range_error")

\* event.model.ts normalizeTime: HH:mm or HH:mm:ss.
normalizeTime(time) ==
    LET trimmed == trim(time) IN
    IF ~MatchesHourMinute(trimmed, TRUE) THEN Throws("time_format_error")
    ELSE Normalize24(trimmed)

\* part_003, the time branch of the hook: HH:MM only.
normalizeTime_part_003(time) ==
    LET trimmed == trim(time) IN
    IF ~MatchesHourMinute(trimmed, FALSE) THEN Throws("time_format_error")
    ELSE Normalize24(trimmed)

\* /^(\d{1,2})(?::(\d{2}))?\s*(am|pm)$/
MatchesTwelveHour(s) ==
    /\ Len(s) >= 3
    /\ SubSeq(s, Len(s) - 1, Len(s)) \in {<<"a", "m">>, <<"p", "m">>}
    /\ LET body == DropEndIn(SubSeq(s, 1, Len(s) - 2), Whitespace)
       IN \/ Len(body) \in 1..2 /\ AllDigits(body)
          \/ MatchesHourMinute(body, FALSE)

\* part_004 normalizeTime: 24-hour H:mm, or 12-hour with am/pm.
normalizeTime_part_004(timeStr) ==
    LET trimmed == toLowerCase(trim(timeStr)) IN
    IF MatchesHourMinute(trimmed, FALSE) THEN Normalize24(trimmed)
    ELSE IF MatchesTwelveHour(trimmed)
    THEN LET meridiem == SubSeq(trimmed, Len(trimmed) - 1, Len(trimmed))
             body == DropEndIn(SubSeq(trimmed, 1, Len(trimmed) - 2), Whitespace)
             rawHour == IF AllDigits(body) THEN body ELSE HourDigits(body)
             minute == IF AllDigits(body) THEN 0 ELSE Number(MinuteDigits(body))
             hour == Number(rawHour)
         IN IF hour < 1 \/ hour > 12 \/ minute < 0 \/ minute > 59
            THEN Throws("time_range_error")
            ELSE Returns(HHMM(
                    IF meridiem = <<"p", "m">> /\ hour # 12 THEN hour + 12
                    ELSE IF meridiem = <<"a", "m">> /\ hour = 12 THEN 0
                    ELSE hour,
                    minute))
    ELSE Throws("time_format_error")

\* new Date(date): Invalid Date, or an instant with its UTC calendar fields.
InvalidDate == [year |-> 0, month |-> 0, day |-> 0]

\* The date part of Date.prototype.toISOString: four digits for the years
\* 0..9999, a sign and six digits beyond.
toISOStringDate(parsed) ==
    (IF parsed.year <= 9999
     THEN padStart(String(parsed.year), 4, "0")
     ELSE <<"+">> \o padStart(String(parsed.year), 6, "0"))
    \o <<"-">> \o padStart(String(parsed.month), 2, "0")
    \o <<"-">> \o padStart(String(parsed.day), 2, "0")

\* event.model.ts normalizeDate, and the date branch of the part_003 hook.
normalizeDate(parsed) ==
    IF parsed = InvalidDate THEN Throws("date_error")
    ELSE Returns(toISOStringDate(parsed))

\* part_004 normalizeDateToIso: `${year}-${month}-${day}`, year as it is.
normalizeDateToIso(parsed) ==
    IF parsed = InvalidDate THEN Throws("date_error")
    ELSE Returns(String(parsed.year)
                 \o <<"-">> \o padStart(String(parsed.month), 2, "0")
                 \o <<"-">> \o padStart(String(parsed.day), 2, "0"))

\* ------------------------------------------------------------------ inputs

\* Titles a caller may submit: "a b", "A!b", "!", " ".
Titles ==
    { <<"a", " ", "b">>, <<"A", "!", "b">>, <<"!">>, <<" ">> }

\* Emails a caller may submit: "A@b.y ", "a@b".
Emails ==
    { <<"A", "@", "b", ".", "y", " ">>, <<"a", "@", "b">> }

\* Math.random().toString(36).slice(2, 8): lowercase alphanumeric characters.
Suffixes == { <<"x">>, <<"y">> }

\* The revisions of the event pre-save hook: event.model.ts (existence query
\* and retry loop, slug first), part_003 (slug assigned without a query, slug
\* first) and part_004 (slug assigned without a query, slug last).
EventRevs == {"event_model", "part_003", "part_004"}

\* The date and the time of the form when a claim is not about them:
\* 2025-12-28 and "14:30".
ValidDate == [year |-> 2025, month |-> 12, day |-> 28]
ValidTime == <<"1", "4", ":", "3", "0">>

\* Times a client may submit: "2:30 pm", "25:00", "1430".
TwoThirtyPm == <<"2", ":", "3", "0", " ", "p", "m">>
TwentyFiveHours == <<"2", "5", ":", "0", "0">>
NoColon == <<"1", "4", "3", "0">>

\* The form a client submits when a claim is not about its fields.
PlainForm ==
    [title |-> <<"a">>, date |-> ValidDate, time |-> ValidTime,
     email |-> <<"a", "@", "b", ".", "y">>]

\* The forms submitted where every kind of request is served: the plain one,
\* one with an unparseable date, and one for each of the times above.
SeqForms ==
    {PlainForm, [PlainForm EXCEPT !.date = InvalidDate]}
    \cup {[PlainForm EXCEPT !.time = t] : t \in {TwoThirtyPm, TwentyFiveHours, NoColon}}

\* The hours, minutes and meridiems of the 12-hour times submitted.
TwelveHours == 0..13
Minutes == {0, 5, 30, 59, 60}
Meridiems == {<<"a", "m">>, <<"p", "m">>, <<"P", "M">>}

\* "h:MM am": a 12-hour time as a client types it.
TwelveHourText(hour, minute, meridiem) ==
    String(hour) \o <<":">> \o padStart(String(minute), 2, "0") \o <<" ">> \o meridiem

\* The hours of the 24-hour times submitted.
TwentyFourHours == {0, 9, 14, 23, 24, 25, 99}

\* "H:MM": a 24-hour time as a client types it.
TwentyFourHourText(hour, minute) ==
    String(hour) \o <<":">> \o padStart(String(minute), 2, "0")

\* Other times submitted: "14:30:15", " 09:05 ", "11 am", "1430".
WithSeconds == <<"1", "4", ":", "3", "0", ":", "1", "5">>
Padded == <<" ", "0", "9", ":", "0", "5", " ">>
ElevenAm == <<"1", "1", " ", "a", "m">>

FieldTimes ==
    {TwelveHourText(h, m, mer) : h \in TwelveHours, m \in Minutes, mer \in Meridiems}
    \cup {TwentyFourHourText(h, m) : h \in TwentyFourHours, m \in Minutes \cup {99}}
    \cup {WithSeconds, Padded, ElevenAm, NoColon}

\* Dates submitted, as new Date(date) reads them: unparseable, 2025-12-28,
\* 0999-01-05 and +010000-01-01.
EarlyDate == [year |-> 999, month |-> 1, day |-> 5]
LateDate == [year |-> 10000, month |-> 1, day |-> 1]
FieldDates == {InvalidDate, ValidDate, EarlyDate, LateDate}

\* The characters of the titles: a letter, an upper-case letter, whitespace,
\* a hyphen and punctuation.
TitleChars == {"a", "B", " ", "-", "!"}

\* "Ab: x y!!"
Punctuated == <<"A", "b", ":", " ", "x", " ", "y", "!", "!">>

\* Every title of up to MaxTitleLen of these characters, and the one above.
SlugTitles ==
    UNION {[1..n -> TitleChars] : n \in 1..MaxTitleLen} \cup {Punctuated}

\* The forms submitted where the slug is what is looked at.
SlugForms == {[PlainForm EXCEPT !.title = t] : t \in SlugTitles}

\* The characters of the emails: an upper-case letter, the at sign, the dot
\* and whitespace.
EmailChars == {"A", "@", ".", " "}

\* " a@b.y", "A@b.y "
LeadingSpace == <<" ", "a", "@", "b", ".", "y">>
TrailingSpace == <<"A", "@", "b", ".", "y", " ">>

\* Every email of up to MaxEmailLen of these characters, and the two above.
EmailInputs ==
    UNION {[1..n -> EmailChars] : n \in 1..MaxEmailLen}
    \cup {LeadingSpace, TrailingSpace}

\* The forms submitted where the email is what is looked at.
EmailForms == {[PlainForm EXCEPT !.email = e] : e \in EmailInputs}

\* The forms submitted where the date and the time are what is looked at.
FieldForms ==
    {[PlainForm EXCEPT !.time = t] : t \in FieldTimes}
    \cup {[PlainForm EXCEPT !.date = d] : d \in FieldDates}

\* ------------------------------------------------------------------ state

VARIABLES
    eventRev,       \* which revision of the event pre-save hook is deployed
    form,           \* the form fields (title, date, time, email) clients submit
    events,         \* the events collection: a set of stored documents
    nextId,         \* the next _id a constructed event document receives
    bookings,       \* the bookings collection: a set of stored documents
    nextBookingId,  \* the next _id a constructed booking document receives
    procs,          \* the requests in flight: the document each one is saving
    connRev,        \* which revision of the connection module is deployed
    uriDefined,     \* whether process.env.MONGODB_URI is set
    module,         \* the connection module: "unloaded", "loaded" or "failed"
    cachedConn,     \* cached.conn: 0 for null, else the connection
    cachedPromise,  \* cached.promise: 0 for null, else the attempt
    attempts,       \* the connect attempts started, each with its awaiting callers
    callers,        \* the calls of connectToDatabase in flight
    microtasks      \* the jobs ready to run, in order

storeVars == <<eventRev, form, events, nextId, bookings, nextBookingId, procs>>

connVars ==
    <<connRev, uriDefined, module, cachedConn, cachedPromise, attempts, callers,
      microtasks>>

vars == <<storeVars, connVars>>

NoSlug == <<>>

IdleProc ==
    [ pc |-> "idle", isNew |-> FALSE, id |-> 0, title |-> <<>>, slug |-> NoSlug,
      date |-> <<>>, time |-> <<>>,
      modTitle |-> FALSE, modOther |-> FALSE, modDate |-> FALSE, modTime |-> FALSE,
      origSlug |-> NoSlug,
      candidate |-> NoSlug, attempt |-> 0, eventId |-> 0, email |-> <<>>,
      result |-> "" ]

Stored(id) == CHOOSE e \in events : e.id = id

IsStored(id) == \E e \in events : e.id = id

\* A hook that does not look at the answer of Event.exists.
EventExistsIgnored(id) == TRUE

\* Event.exists({ _id: this.eventId })
EventExists(id) == \E e \in events : e.id = id

\* Model.exists({ slug: candidate, _id: { $ne: this._id } })
SlugExists(candidate, id) ==
    \E e \in events : e.slug = candidate /\ e.id # id

\* A hook that regenerates the slug on every save.
NeedsSlugAlways(doc) == TRUE

\* this.isModified('title') || !this.slug
NeedsSlug(doc) == doc.modTitle \/ doc.slug = NoSlug

\* The slug the deployed hook derives from a title.
BaseSlug(title) ==
    IF eventRev = "event_model" THEN slugify(title) ELSE generateSlug(title)

\* Schema validation of title (required, trim: true) runs before the hook.
PassesValidation(doc) == doc.title # <<>>

\* The time normalization of the deployed hook.
NormalizeTime(time) ==
    IF eventRev = "event_model" THEN normalizeTime(time)
    ELSE IF eventRev = "part_003" THEN normalizeTime_part_003(time)
    ELSE normalizeTime_part_004(time)

\* The date normalization of the deployed hook, applied to new Date(this.date).
NormalizeDate(parsed) ==
    IF eventRev = "part_004" THEN normalizeDateToIso(parsed) ELSE normalizeDate(parsed)

\* if (this.isModified('date')) ...; if (this.isModified('time')) ...: the
\* document with both normalized, or the save ended by the error thrown.
NormalizeFields(doc) ==
    LET date == IF doc.modDate THEN NormalizeDate(form.date) ELSE Returns(doc.date)
        time == IF doc.modTime THEN NormalizeTime(doc.time) ELSE Returns(doc.time)
    IN IF date.error # "" THEN [doc EXCEPT !.pc = "done", !.result = date.error]
       ELSE IF time.error # ""
       THEN [doc EXCEPT !.pc = "done", !.result = time.error, !.date = date.value]
       ELSE [doc EXCEPT !.date = date.value, !.time = time.value]

\* The synchronous part of save(): validation, then the hook up to its first
\* await (event.model.ts) or to its end (part_003, part_004).
StartSave(doc) ==
    IF ~PassesValidation(doc)
    THEN [doc EXCEPT !.pc = "done", !.result = "validation_error"]
    ELSE IF eventRev = "event_model"
    THEN IF NeedsSlug(doc)
         THEN [doc EXCEPT !.pc = "query", !.candidate = BaseSlug(doc.title),
                          !.attempt = 0]
         ELSE NormalizeFields([doc EXCEPT !.pc = "write"])
    ELSE IF eventRev = "part_003"
    THEN NormalizeFields(
            IF NeedsSlug(doc)
            THEN [doc EXCEPT !.pc = "write", !.slug = BaseSlug(doc.title)]
            ELSE [doc EXCEPT !.pc = "write"])
    ELSE LET normalized == NormalizeFields([doc EXCEPT !.pc = "write"]) IN
         IF normalized.pc = "write" /\ NeedsSlug(normalized)
         THEN [normalized EXCEPT !.slug = BaseSlug(doc.title)]
         ELSE normalized

\* Event.create(fields): a new document, then save().
CreateEvent(p, t) ==
    /\ procs[p].pc = "idle"
    /\ nextId <= MaxEvents
    /\ procs' = [procs EXCEPT ![p] =
          StartSave([IdleProc EXCEPT !.isNew = TRUE, !.id = nextId, !.title = trim(t),
                                     !.time = form.time,
                                     !.modTitle = TRUE, !.modOther = TRUE,
                                     !.modDate = TRUE, !.modTime = TRUE])]
    /\ nextId' = nextId + 1
    /\ UNCHANGED connVars
    /\ UNCHANGED <<eventRev, form, events, bookings, nextBookingId>>

\* A stored document is loaded, its title is assigned and possibly the other
\* fields of the form (other), then save().
UpdateEvent(p, id, t, other) ==
    /\ procs[p].pc = "idle"
    /\ IsStored(id)
    /\ LET e == Stored(id) IN
       procs' = [procs EXCEPT ![p] =
          StartSave([IdleProc EXCEPT !.id = id, !.title = trim(t),
                                     !.slug = e.slug, !.origSlug = e.slug,
                                     !.date = e.date,
                                     !.time = IF other THEN form.time ELSE e.time,
                                     !.modTitle = (trim(t) # e.title),
                                     !.modOther = other,
                                     !.modDate = other,
                                     !.modTime = (other /\ form.time # e.time)])]
    /\ UNCHANGED connVars
    /\ UNCHANGED <<eventRev, form, events, nextId, bookings, nextBookingId>>

\* What follows the retry loop: the generation error, or the rest of the hook
\* (date, time).
AfterLoop(doc) ==
    IF doc.slug = NoSlug
    THEN [doc EXCEPT !.pc = "done", !.result = "slug_error",
                     !.candidate = NoSlug, !.attempt = 0]
    ELSE NormalizeFields([doc EXCEPT !.pc = "write", !.candidate = NoSlug, !.attempt = 0])

\* A loop condition that admits one iteration too many.
WithinAttemptsInclusive(attempt) == attempt <= MaxAttempts

\* The condition of the retry loop: while (attempt < maxAttempts).
WithinAttempts(attempt) == attempt < MaxAttempts

\* One iteration of the retry loop: the existence query and what follows it.
SlugQuery(p) ==
    /\ procs[p].pc = "query"
    /\ LET doc == procs[p] IN
       IF ~SlugExists(doc.candidate, doc.id)
       THEN procs' = [procs EXCEPT ![p] = AfterLoop([doc EXCEPT !.slug = doc.candidate])]
       ELSE \E s \in Suffixes :
              LET next == [doc EXCEPT !.candidate = slugify(doc.title) \o <<"-">> \o s,
                                      !.attempt = @ + 1]
              IN procs' = [procs EXCEPT ![p] =
                     IF WithinAttempts(next.attempt) THEN next ELSE AfterLoop(next)]
    /\ UNCHANGED connVars
    /\ UNCHANGED <<eventRev, form, events, nextId, bookings, nextBookingId>>

\* A slug index that is not unique.
SlugTakenNever(doc) == FALSE

\* The unique index on slug: the write of doc would duplicate a key.
SlugTaken(doc) ==
    /\ doc.isNew \/ doc.slug # doc.origSlug
    /\ \E e \in events : e.id # doc.id /\ e.slug = doc.slug

\* The document as the store holds it after the write: an insert, or an update
\* that sets the modified paths.
Written(doc) ==
    IF doc.isNew
    THEN [id |-> doc.id, title |-> doc.title, slug |-> doc.slug,
          date |-> doc.date, time |-> doc.time]
    ELSE LET e == Stored(doc.id) IN
         [id |-> doc.id,
          title |-> IF doc.modTitle THEN doc.title ELSE e.title,
          slug |-> IF doc.slug # doc.origSlug THEN doc.slug ELSE e.slug,
          date |-> IF doc.modDate THEN doc.date ELSE e.date,
          time |-> IF doc.modTime THEN doc.time ELSE e.time]

\* A store that keeps the document whose write it reports as failed.
WriteEventKeepsRejected(p) ==
    /\ procs[p].pc = "write"
    /\ LET doc == procs[p] IN
       /\ procs' = [procs EXCEPT ![p] =
             [doc EXCEPT !.pc = "done",
                         !.result = IF SlugTaken(doc) THEN "store_error" ELSE "ok"]]
       /\ events' = {e \in events : e.id # doc.id} \cup {Written(doc)}
    /\ UNCHANGED connVars
    /\ UNCHANGED <<eventRev, form, nextId, bookings, nextBookingId>>

\* The store write that ends save().
WriteEvent(p) ==
    /\ procs[p].pc = "write"
    /\ LET doc == procs[p] IN
       IF SlugTaken(doc)
       THEN /\ procs' = [procs EXCEPT ![p] = [doc EXCEPT !.pc = "done", !.result = "store_error"]]
            /\ UNCHANGED events
       ELSE /\ procs' = [procs EXCEPT ![p] = [doc EXCEPT !.pc = "done", !.result = "ok"]]
            /\ events' = {e \in events : e.id # doc.id} \cup {Written(doc)}
    /\ UNCHANGED connVars
    /\ UNCHANGED <<eventRev, form, nextId, bookings, nextBookingId>>

\* Booking.create({ eventId, email }): the setters (trim, lowercase), the
\* schema validator, then the hook up to its await of Event.exists.
CreateBooking(p, eid, em) ==
    /\ procs[p].pc = "idle"
    /\ nextBookingId <= MaxBookings
    /\ LET doc == [IdleProc EXCEPT !.isNew = TRUE, !.id = nextBookingId, !.eventId = eid,
                                   !.email = toLowerCase(trim(em))]
       IN procs' = [procs EXCEPT ![p] =
             IF isValidEmail(doc.email)
             THEN [doc EXCEPT !.pc = "lookup"]
             ELSE [doc EXCEPT !.pc = "done", !.result = "validation_error"]]
    /\ nextBookingId' = nextBookingId + 1
    /\ UNCHANGED connVars
    /\ UNCHANGED <<eventRev, form, events, nextId, bookings>>

\* The hook after Event.exists({ _id: this.eventId }) answers.
EventLookup(p) ==
    /\ procs[p].pc = "lookup"
    /\ procs' = [procs EXCEPT ![p] =
          IF EventExists(procs[p].eventId)
          THEN [procs[p] EXCEPT !.pc = "insert"]
          ELSE [procs[p] EXCEPT !.pc = "done", !.result = "referential_error"]]
    /\ UNCHANGED connVars
    /\ UNCHANGED <<eventRev, form, events, nextId, bookings, nextBookingId>>

\* The insert that ends the booking's save(): the indexes on eventId are not
\* unique, so the store accepts it.
InsertBooking(p) ==
    /\ procs[p].pc = "insert"
    /\ bookings' = bookings \cup
          {[id |-> procs[p].id, eventId |-> procs[p].eventId, email |-> procs[p].email]}
    /\ procs' = [procs EXCEPT ![p] = [procs[p] EXCEPT !.pc = "done", !.result = "ok"]]
    /\ UNCHANGED connVars
    /\ UNCHANGED <<eventRev, form, events, nextId, nextBookingId>>

\* POST /api/events without an image file: answered before anything is
\* uploaded or created.
PostWithoutImage(p) ==
    /\ procs[p].pc = "idle"
    /\ procs' = [procs EXCEPT ![p] = [IdleProc EXCEPT !.pc = "done",
                                                      !.result = "image_required"]]
    /\ UNCHANGED connVars
    /\ UNCHANGED <<eventRev, form, events, nextId, bookings, nextBookingId>>

\* The status of the response of POST /api/events: 400 without an image, 201
\* when Event.create returned, 500 from the catch of whatever it threw.
HttpStatus(result) ==
    IF result = "image_required" THEN 400
    ELSE IF result = "ok" THEN 201
    ELSE 500

\* The request is answered; its slot serves the next request.
Respond(p) ==
    /\ procs[p].pc = "done"
    /\ procs' = [procs EXCEPT ![p] = IdleProc]
    /\ UNCHANGED connVars
    /\ UNCHANGED <<eventRev, form, events, nextId, bookings, nextBookingId>>

\* ------------------------------------------------------------------ connection

\* The revisions of the connection module: mongodb.ts (URI checked at module
\* load, no failure handler) and part_001 (URI checked at each call, failure
\* handler clears cached.promise).
ConnRevs == {"mongodb_ts", "part_001"}

IdleCaller == [pc |-> "idle", promise |-> 0, result |-> "none", conn |-> 0]

\* A URI check that never fires.
UriMissingNever == FALSE

\* if (!MONGODB_URI)
UriMissing == ~uriDefined

\* The module is evaluated: mongodb.ts throws when the URI is not defined.
LoadModule ==
    /\ module = "unloaded"
    /\ module' = IF connRev = "mongodb_ts" /\ UriMissing THEN "failed" ELSE "loaded"
    /\ UNCHANGED <<connRev, uriDefined, cachedConn, cachedPromise, attempts, callers,
                   microtasks>>
    /\ UNCHANGED storeVars

\* The jobs of the event loop: a handler that is about to call
\* connectToDatabase(), the reaction that settles cached.promise once
\* mongoose.connect has settled, and the continuation of a call after its
\* await.
CallJob(c) == [kind |-> "call", id |-> c]
ThenJob(a) == [kind |-> "then", id |-> a]
ResumeJob(c) == [kind |-> "resume", id |-> c]

\* A handler reaches its `await connectToDatabase()`: the call is the next
\* thing its job does.
Arrive(c) ==
    /\ module = "loaded"
    /\ callers[c].pc = "idle"
    /\ callers' = [callers EXCEPT ![c] = [IdleCaller EXCEPT !.pc = "ready"]]
    /\ microtasks' = Append(microtasks, CallJob(c))
    /\ UNCHANGED <<connRev, uriDefined, module, cachedConn, cachedPromise, attempts>>
    /\ UNCHANGED storeVars

\* A call that connects without looking at cached.promise.
StartsAttemptAlways == TRUE

\* if (!cached.promise): the call starts a connect attempt.
StartsAttempt == cachedPromise = 0

\* connectToDatabase() up to its await (or its return, or its throw). An await
\* of a promise that has settled makes the continuation ready at once.
Call(c) ==
    /\ microtasks # <<>>
    /\ Head(microtasks) = CallJob(c)
    /\ IF UriMissing
       THEN /\ callers' = [callers EXCEPT ![c] = [IdleCaller EXCEPT !.pc = "done",
                                                               !.result = "config_error"]]
            /\ microtasks' = Tail(microtasks)
            /\ UNCHANGED <<cachedPromise, attempts>>
       ELSE IF cachedConn # 0
       THEN /\ callers' = [callers EXCEPT ![c] = [IdleCaller EXCEPT !.pc = "done",
                                                               !.result = "connected",
                                                               !.conn = cachedConn]]
            /\ microtasks' = Tail(microtasks)
            /\ UNCHANGED <<cachedPromise, attempts>>
       ELSE LET started == IF StartsAttempt
                           THEN Append(attempts, [state |-> "pending", outcome |-> "",
                                                  waiters |-> <<>>])
                           ELSE attempts
                promise == IF StartsAttempt THEN Len(started) ELSE cachedPromise
            IN /\ Len(started) <= MaxConnects
               /\ cachedPromise' = promise
               /\ callers' = [callers EXCEPT ![c] = [IdleCaller EXCEPT !.pc = "await",
                                                                  !.promise = promise]]
               /\ IF started[promise].state = "pending"
                  THEN /\ attempts' = [started EXCEPT ![promise].waiters = Append(@, c)]
                       /\ microtasks' = Tail(microtasks)
                  ELSE /\ attempts' = started
                       /\ microtasks' = Append(Tail(microtasks), ResumeJob(c))
    /\ UNCHANGED <<connRev, uriDefined, module, cachedConn>>
    /\ UNCHANGED storeVars

\* mongoose.connect settles: the reaction that settles cached.promise is
\* queued.
Settle(a, outcome) ==
    /\ a \in 1..Len(attempts)
    /\ attempts[a].outcome = ""
    /\ attempts' = [attempts EXCEPT ![a].outcome = outcome]
    /\ microtasks' = Append(microtasks, ThenJob(a))
    /\ UNCHANGED <<connRev, uriDefined, module, cachedConn, cachedPromise, callers>>
    /\ UNCHANGED storeVars

\* .then((m) => m.connection) runs: cached.promise settles, and the
\* continuations of the awaiting callers become ready, in the order they
\* awaited.
Then ==
    /\ microtasks # <<>>
    /\ Head(microtasks).kind = "then"
    /\ LET a == Head(microtasks).id IN
       /\ attempts' = [attempts EXCEPT ![a] = [state |-> attempts[a].outcome,
                                               outcome |-> attempts[a].outcome,
                                               waiters |-> <<>>]]
       /\ microtasks' = Tail(microtasks) \o
             [i \in 1..Len(attempts[a].waiters) |-> ResumeJob(attempts[a].waiters[i])]
    /\ UNCHANGED <<connRev, uriDefined, module, cachedConn, cachedPromise, callers>>
    /\ UNCHANGED storeVars

\* catch (error) { cached.promise = null; throw error; } exists in part_001 only.
ClearsOnFailure == connRev = "part_001"

\* The continuation of the first ready caller: what follows its await.
Resume ==
    /\ microtasks # <<>>
    /\ Head(microtasks).kind = "resume"
    /\ LET c == Head(microtasks).id
           a == callers[c].promise
       IN IF attempts[a].state = "resolved"
          THEN /\ cachedConn' = a
               /\ callers' = [callers EXCEPT ![c] = [@ EXCEPT !.pc = "done",
                                                              !.result = "connected",
                                                              !.conn = a]]
               /\ UNCHANGED cachedPromise
          ELSE /\ callers' = [callers EXCEPT ![c] = [@ EXCEPT !.pc = "done",
                                                              !.result = "connect_error"]]
               /\ cachedPromise' = IF ClearsOnFailure THEN 0 ELSE cachedPromise
               /\ UNCHANGED cachedConn
    /\ microtasks' = Tail(microtasks)
    /\ UNCHANGED <<connRev, uriDefined, module, attempts>>
    /\ UNCHANGED storeVars

\* The caller has its answer; the slot serves the next call.
Return(c) ==
    /\ callers[c].pc = "done"
    /\ callers' = [callers EXCEPT ![c] = IdleCaller]
    /\ UNCHANGED <<connRev, uriDefined, module, cachedConn, cachedPromise, attempts,
                   microtasks>>
    /\ UNCHANGED storeVars

\* ------------------------------------------------------------------ specifications

InitStore ==
    /\ events = {}
    /\ nextId = 1
    /\ bookings = {}
    /\ nextBookingId = 1
    /\ procs = [p \in Procs |-> IdleProc]

InitConnection ==
    /\ module = "unloaded"
    /\ cachedConn = 0
    /\ cachedPromise = 0
    /\ attempts = <<>>
    /\ callers = [c \in Callers |-> IdleCaller]
    /\ microtasks = <<>>

Init ==
    /\ eventRev \in EventRevs
    /\ form = PlainForm
    /\ InitStore
    /\ connRev = "mongodb_ts"
    /\ uriDefined = TRUE
    /\ InitConnection

InitConn ==
    /\ eventRev = "event_model"
    /\ form = PlainForm
    /\ InitStore
    /\ connRev \in ConnRevs
    /\ uriDefined \in BOOLEAN
    /\ InitConnection

\* Calls of connectToDatabase within one process.
NextConn ==
    \/ LoadModule
    \/ \E c \in Callers : Arrive(c)
    \/ \E c \in Callers : Call(c)
    \/ \E a \in 1..MaxConnects, outcome \in {"resolved", "rejected"} : Settle(a, outcome)
    \/ Then
    \/ Resume
    \/ \E c \in Callers : Return(c)

SpecConn == InitConn /\ [][NextConn]_vars

\* Event requests, served concurrently.
Next ==
    \/ \E p \in Procs, t \in Titles : CreateEvent(p, t)
    \/ \E p \in Procs, id \in EventIds, t \in Titles, other \in BOOLEAN :
          UpdateEvent(p, id, t, other)
    \/ \E p \in Procs : SlugQuery(p)
    \/ \E p \in Procs : WriteEvent(p)
    \/ \E p \in Procs : Respond(p)

Spec == Init /\ [][Next]_vars

\* Event creations and booking creations, served concurrently.
NextBooking ==
    \/ \E p \in Procs, t \in Titles : CreateEvent(p, t)
    \/ \E p \in Procs : SlugQuery(p)
    \/ \E p \in Procs : WriteEvent(p)
    \/ \E p \in Procs, eid \in EventIds, em \in Emails : CreateBooking(p, eid, em)
    \/ \E p \in Procs : EventLookup(p)
    \/ \E p \in Procs : InsertBooking(p)
    \/ \E p \in Procs : Respond(p)

SpecBooking == Init /\ [][NextBooking]_vars

\* No other request is in flight while p's is served.
Alone(p) == \A q \in Procs \ {p} : procs[q].pc = "idle"

\* All requests, served one after the other.
NextSeq ==
    \/ \E p \in Procs, t \in Titles : Alone(p) /\ CreateEvent(p, t)
    \/ \E p \in Procs, id \in EventIds, t \in Titles, other \in BOOLEAN :
          Alone(p) /\ UpdateEvent(p, id, t, other)
    \/ \E p \in Procs : Alone(p) /\ SlugQuery(p)
    \/ \E p \in Procs : Alone(p) /\ WriteEvent(p)
    \/ \E p \in Procs, eid \in EventIds, em \in Emails : Alone(p) /\ CreateBooking(p, eid, em)
    \/ \E p \in Procs : Alone(p) /\ EventLookup(p)
    \/ \E p \in Procs : Alone(p) /\ InsertBooking(p)
    \/ \E p \in Procs : Alone(p) /\ PostWithoutImage(p)
    \/ \E p \in Procs : Alone(p) /\ Respond(p)

InitSeq ==
    /\ eventRev \in EventRevs
    /\ form \in SeqForms
    /\ InitStore
    /\ connRev = "mongodb_ts"
    /\ uriDefined = TRUE
    /\ InitConnection

SpecSeq == InitSeq /\ [][NextSeq]_vars

\* The title of creations that collide: its base slug is "a-b".
LoopTitle == <<"a", " ", "b">>

\* Event creations of one title, served concurrently.
NextLoop ==
    \/ \E p \in Procs : CreateEvent(p, LoopTitle)
    \/ \E p \in Procs : SlugQuery(p)
    \/ \E p \in Procs : WriteEvent(p)
    \/ \E p \in Procs : Respond(p)

\* The awaited Model.exists() promise settles and the event loop resumes the
\* hook: an existence query that is pending is eventually answered.
SpecLoop ==
    /\ Init
    /\ [][NextLoop]_vars
    /\ \A p \in Procs : WF_vars(SlugQuery(p))

InitFields ==
    /\ eventRev \in EventRevs
    /\ form \in FieldForms
    /\ InitStore
    /\ connRev = "mongodb_ts"
    /\ uriDefined = TRUE
    /\ InitConnection

\* Creations and saves of events with the fields of one form, served one
\* after the other.
NextFields ==
    \/ \E p \in Procs : Alone(p) /\ CreateEvent(p, form.title)
    \/ \E p \in Procs, id \in EventIds, other \in BOOLEAN :
          Alone(p) /\ UpdateEvent(p, id, form.title, other)
    \/ \E p \in Procs : Alone(p) /\ SlugQuery(p)
    \/ \E p \in Procs : Alone(p) /\ WriteEvent(p)
    \/ \E p \in Procs : Alone(p) /\ Respond(p)

SpecFields == InitFields /\ [][NextFields]_vars

InitSlug ==
    /\ eventRev \in EventRevs
    /\ form \in SlugForms
    /\ InitStore
    /\ connRev = "mongodb_ts"
    /\ uriDefined = TRUE
    /\ InitConnection

\* Creations of events with the title of one form, served one after the
\* other.
NextSlug ==
    \/ \E p \in Procs : Alone(p) /\ CreateEvent(p, form.title)
    \/ \E p \in Procs : Alone(p) /\ SlugQuery(p)
    \/ \E p \in Procs : Alone(p) /\ WriteEvent(p)
    \/ \E p \in Procs : Alone(p) /\ Respond(p)

SpecSlug == InitSlug /\ [][NextSlug]_vars

InitEmail ==
    /\ eventRev \in EventRevs
    /\ form \in EmailForms
    /\ InitStore
    /\ connRev = "mongodb_ts"
    /\ uriDefined = TRUE
    /\ InitConnection

\* Creations of events and of bookings with the email of one form, served
\* one after the other.
NextEmail ==
    \/ \E p \in Procs : Alone(p) /\ CreateEvent(p, form.title)
    \/ \E p \in Procs : Alone(p) /\ SlugQuery(p)
    \/ \E p \in Procs : Alone(p) /\ WriteEvent(p)
    \/ \E p \in Procs, eid \in EventIds : Alone(p) /\ CreateBooking(p, eid, form.email)
    \/ \E p \in Procs : Alone(p) /\ EventLookup(p)
    \/ \E p \in Procs : Alone(p) /\ InsertBooking(p)
    \/ \E p \in Procs : Alone(p) /\ Respond(p)

SpecEmail == InitEmail /\ [][NextEmail]_vars

\* ------------------------------------------------------------------ properties

BookingsFor(e) == {b \in bookings : b.eventId = e}

StoredIn(S, id) == CHOOSE e \in S : e.id = id

UniqueSlugsIn(S) == \A e1 \in S, e2 \in S : e1.slug = e2.slug => e1.id = e2.id

\* C1: once a booking for event E is persisted, every later booking creation
\* for E ends with a duplicate error and leaves the bookings as they were.
C1_LaterBookingRejected ==
    [][\A p \in Procs :
          ( /\ procs[p].pc \in {"lookup", "insert"}
            /\ procs'[p].pc = "done"
            /\ BookingsFor(procs[p].eventId) # {} )
          => (procs'[p].result = "duplicate_error" /\ bookings' = bookings)]_vars

\* C2: under any interleaving of booking creations, at most one booking is
\* persisted per eventId.
C2_OneBookingPerEvent ==
    \A e \in EventIds : Cardinality(BookingsFor(e)) <= 1

\* C3: no two persisted events have the same slug and every persisted event
\* has a non-empty slug.
C3_SlugsUniqueNonEmpty ==
    /\ UniqueSlugsIn(events)
    /\ \A e \in events : e.slug # NoSlug

\* C4: as long as no connect attempt has failed, at most one attempt has been
\* started, every awaiting call awaits it, and every call that returned a
\* connection returned the one of that attempt, which is the cached one.
C4_SingleConnect ==
    (\A a \in 1..Len(attempts) : attempts[a].state # "rejected")
    => /\ Len(attempts) <= 1
       /\ cachedConn \in {0, 1}
       /\ \A c \in Callers :
             /\ callers[c].pc = "await" => callers[c].promise = 1
             /\ callers[c].result = "connected" => callers[c].conn = 1 /\ cachedConn = 1

\* Two calls that awaited the one attempt and a call that came after it
\* succeeded all hold its connection.
C4_Witness ==
    /\ Len(attempts) = 1
    /\ \E c1 \in Callers, c2 \in Callers :
          /\ c1 # c2
          /\ callers[c1].result = "connected" /\ callers[c1].promise = 1
          /\ callers[c2].result = "connected" /\ callers[c2].promise = 1
    /\ \E c3 \in Callers : callers[c3].result = "connected" /\ callers[c3].promise = 0

\* C5: once the failure of a connect attempt has been handled, the cache no
\* longer holds the failed attempt, so the next call starts a fresh one.
C5_FailedAttemptCleared ==
    (microtasks = <<>> /\ cachedPromise # 0)
    => attempts[cachedPromise].state # "rejected"

\* C6: an insert of a new event whose slug another stored event already has is
\* rejected by the unique index with a store error and is not retried, any
\* other insert is stored, and the stored slugs stay unique.
C6_IndexRejectsLaterInsert ==
    [][\A p \in Procs :
          (procs[p].pc = "write" /\ procs'[p].pc # "write" /\ procs[p].isNew)
          => /\ procs'[p].pc = "done"
             /\ procs'[p].slug = procs[p].slug
             /\ IF \E e \in events : e.slug = procs[p].slug
                THEN procs'[p].result = "store_error" /\ events' = events
                ELSE /\ procs'[p].result = "ok"
                     /\ \E e \in events' : e.id = procs[p].id /\ e.slug = procs[p].slug
             /\ UniqueSlugsIn(events')]_vars

\* Two creations of one title passed the existence query with the same
\* candidate; one is stored, the other ended with the store error.
C6_Witness ==
    /\ eventRev = "event_model"
    /\ \E p \in Procs, q \in Procs :
          /\ p # q
          /\ procs[p].pc = "done" /\ procs[q].pc = "done"
          /\ procs[p].isNew /\ procs[q].isNew
          /\ procs[p].title = procs[q].title
          /\ procs[p].slug = procs[q].slug /\ procs[p].slug # NoSlug
          /\ procs[p].result = "ok" /\ procs[q].result = "store_error"
          /\ \E e \in events : e.id = procs[p].id /\ e.slug = procs[p].slug
          /\ ~IsStored(procs[q].id)

\* C7: a creation whose title has the base slug of the title of a persisted
\* event succeeds and is stored with a slug base-suffix that no persisted
\* event had.
C7_SecondCreationGetsSuffix ==
    [][\A p \in Procs :
          ( /\ procs[p].pc \in {"query", "write"}
            /\ procs'[p].pc = "done"
            /\ procs[p].isNew
            /\ BaseSlug(procs[p].title) # NoSlug
            /\ \E e \in events : BaseSlug(e.title) = BaseSlug(procs[p].title) )
          => /\ procs'[p].result = "ok"
             /\ \E s \in Suffixes :
                   procs'[p].slug = BaseSlug(procs[p].title) \o <<"-">> \o s
             /\ \A e \in events : e.slug # procs'[p].slug
             /\ \E e \in events' : e.id = procs[p].id /\ e.slug = procs'[p].slug]_vars

\* C8: when the retry loop ends with every checked candidate colliding, the
\* save fails with a slug-generation error and nothing is written.
C8_ExhaustedLoopFails ==
    [][\A p \in Procs :
          ( /\ procs[p].pc = "query"
            /\ procs'[p].pc # "query"
            /\ SlugExists(procs[p].candidate, procs[p].id) )
          => /\ procs'[p].pc = "done"
             /\ procs'[p].result = "slug_error"
             /\ events' = events]_vars

\* C9: a booking creation whose eventId matches no persisted event ends with a
\* referential error and persists nothing, and every persisted booking
\* references a persisted event.
C9_BookingsReferenceEvents ==
    [][/\ \A p \in Procs :
             ( /\ procs[p].pc = "lookup"
               /\ procs'[p].pc # "lookup"
               /\ ~IsStored(procs[p].eventId) )
             => /\ procs'[p].pc = "done"
                /\ procs'[p].result = "referential_error"
                /\ bookings' = bookings
       /\ \A b \in bookings' : \E e \in events' : e.id = b.eventId]_vars

\* A booking creation for an event that is not stored was rejected and left
\* no booking, while another booking is stored.
C9_Witness ==
    /\ bookings # {}
    /\ \E p \in Procs :
          /\ procs[p].pc = "done"
          /\ procs[p].result = "referential_error"
          /\ ~IsStored(procs[p].eventId)
          /\ \A b \in bookings : b.id # procs[p].id

\* C10: a save of a stored event whose title is not modified and whose slug is
\* set writes the slug it loaded and leaves the stored slug as it is.
C10_SlugStable ==
    [][\A p \in Procs :
          ( /\ procs[p].pc = "write"
            /\ procs'[p].pc = "done"
            /\ ~procs[p].isNew
            /\ ~procs[p].modTitle
            /\ procs[p].origSlug # NoSlug )
          => /\ procs'[p].result = "ok"
             /\ procs'[p].slug = procs[p].origSlug
             /\ StoredIn(events', procs[p].id).slug = StoredIn(events, procs[p].id).slug]_vars

\* A stored event was saved with another field modified and its title as it
\* was, while another event has the same slug base.
C10_Witness ==
    \E p \in Procs :
       /\ procs[p].pc = "done" /\ procs[p].result = "ok"
       /\ ~procs[p].isNew /\ ~procs[p].modTitle /\ procs[p].modOther
       /\ procs[p].origSlug # NoSlug
       /\ \E e \in events :
             /\ e.id # procs[p].id
             /\ BaseSlug(e.title) = BaseSlug(procs[p].title)
             /\ e.slug # procs[p].slug

\* C11: a creation of an event or of a booking that ends in an error leaves
\* both collections as they were, and every step that changes a collection
\* ends its request with success.
C11_FailedCreationWritesNothing ==
    [][/\ \A p \in Procs :
             ( /\ procs[p].pc # "done"
               /\ procs'[p].pc = "done"
               /\ procs'[p].isNew
               /\ procs'[p].result # "ok" )
             => (events' = events /\ bookings' = bookings)
       /\ (events' # events \/ bookings' # bookings)
          => \E p \in Procs :
                /\ procs[p].pc \in {"write", "insert"}
                /\ procs'[p].pc = "done"
                /\ procs'[p].result = "ok"]_vars

\* With an event and a booking stored, an event creation was rejected by the
\* unique index and neither collection holds its document.
C11_Witness ==
    /\ bookings # {}
    /\ \E p \in Procs :
          /\ procs[p].pc = "done"
          /\ procs[p].isNew
          /\ procs[p].result = "store_error"
          /\ ~IsStored(procs[p].id)

\* The errors of the validation checks of an event: an empty required field,
\* an unparseable date, a time of the wrong form or out of range.
ValidationErrors ==
    {"validation_error", "date_error", "time_format_error", "time_range_error"}

\* C12: an event creation through POST /api/events that fails a validation
\* check is answered with status 400; 500 answers other failures only.
C12_ValidationAnswered400 ==
    \A p \in Procs :
       ( /\ procs[p].pc = "done"
         /\ procs[p].isNew
         /\ procs[p].eventId = 0
         /\ procs[p].result \in ValidationErrors )
       => HttpStatus(procs[p].result) = 400

\* Two decimal digits.
TwoDigits(n) == <<DigitChars[(n \div 10) + 1], DigitChars[(n % 10) + 1]>>

\* The hour of the day of a 12-hour hour and its meridiem.
HourOfDay(hour, meridiem) ==
    IF toLowerCase(meridiem) = <<"p", "m">>
    THEN (IF hour = 12 THEN 12 ELSE hour + 12)
    ELSE (IF hour = 12 THEN 0 ELSE hour)

\* A finished creation of an event.
CreationDone(p) ==
    procs[p].pc = "done" /\ procs[p].isNew /\ procs[p].eventId = 0

\* C13: a creation with a valid 12-hour time (hour 1..12, minute 00..59, am or
\* pm) is not rejected for its time, and the event it stores has the
\* equivalent 24-hour HH:MM.
C13_TwelveHourStoredAs24 ==
    \A h \in 1..12, m \in 0..59, mer \in Meridiems :
       form.time = TwelveHourText(h, m, mer)
       => \A p \in Procs :
             CreationDone(p)
             => /\ procs[p].result \notin {"time_format_error", "time_range_error"}
                /\ procs[p].result = "ok"
                   => Stored(procs[p].id).time =
                         TwoDigits(HourOfDay(h, mer)) \o <<":">> \o TwoDigits(m)

\* C14: a creation whose time is H:MM or HH:MM with an hour above 23 or a
\* minute above 59 ends with the range error, and no event is persisted.
C14_OutOfRangeRejected ==
    \A h \in TwentyFourHours, m \in Minutes \cup {99} :
       (form.time = TwentyFourHourText(h, m) /\ (h > 23 \/ m > 59))
       => /\ events = {}
          /\ \A p \in Procs :
                CreationDone(p) => procs[p].result = "time_range_error"

\* A creation with the time "25:00" has ended with the range error.
C14_Witness ==
    /\ form.time = TwentyFiveHours
    /\ events = {}
    /\ \E p \in Procs : CreationDone(p) /\ procs[p].result = "time_range_error"

\* HH:MM with HH in 00..23 and MM in 00..59.
IsHHMM(s) ==
    /\ Len(s) = 5
    /\ s[3] = ":"
    /\ \A i \in {1, 2, 4, 5} : s[i] \in Digits
    /\ 10 * DigitValue(s[1]) + DigitValue(s[2]) <= 23
    /\ 10 * DigitValue(s[4]) + DigitValue(s[5]) <= 59

\* YYYY-MM-DD.
IsYYYYMMDD(s) ==
    /\ Len(s) = 10
    /\ s[5] = "-" /\ s[8] = "-"
    /\ \A i \in {1, 2, 3, 4, 6, 7, 9, 10} : s[i] \in Digits

\* C15: every persisted event has a time of the form HH:MM (00..23, 00..59)
\* and a date of the form YYYY-MM-DD, whatever creations and saves came
\* before.
C15_StoredDateTimeNormalized ==
    \A e \in events : IsHHMM(e.time) /\ IsYYYYMMDD(e.date)

\* ^[a-z0-9]+(-[a-z0-9]+)*$
MatchesSlugPattern(s) ==
    /\ s # <<>>
    /\ \A i \in 1..Len(s) : s[i] \in LowerAlnum \cup {"-"}
    /\ s[1] # "-"
    /\ s[Len(s)] # "-"
    /\ \A i \in 1..(Len(s) - 1) : ~(s[i] = "-" /\ s[i + 1] = "-")

\* C16: the slug of every event stored by a creation matches
\* ^[a-z0-9]+(-[a-z0-9]+)*$, or is empty.
C16_StoredSlugMatchesPattern ==
    \A e \in events : e.slug = NoSlug \/ MatchesSlugPattern(e.slug)

\* s with every maximal run of the character c made one c.
RECURSIVE Collapsed(_, _)
Collapsed(s, c) ==
    IF Len(s) < 2 THEN s
    ELSE IF s[1] = c /\ s[2] = c THEN Collapsed(Tail(s), c)
    ELSE <<s[1]>> \o Collapsed(Tail(s), c)

\* The reference derivation of a slug: lowercase, trim, delete every
\* character outside [a-z0-9], whitespace and hyphen, whitespace to hyphens,
\* collapse the hyphens, trim the hyphens at both ends.
ReferenceSlug(title) ==
    LET lowered == trim([i \in 1..Len(title) |-> toLowerCaseChar(title[i])])
        kept == SelectSeq(lowered, LAMBDA c : c \in LowerAlnum \cup Whitespace \cup {"-"})
        hyphened == [i \in 1..Len(kept) |-> IF kept[i] \in Whitespace THEN "-" ELSE kept[i]]
    IN StripEnds(Collapsed(hyphened, "-"), {"-"})

\* C17: the slug of a stored event is the reference derivation of its title,
\* or that followed by a hyphen and a random suffix.
C17_SlugIsReferenceDerivation ==
    \A e \in events :
       \/ e.slug = ReferenceSlug(e.title)
       \/ \E x \in Suffixes : e.slug = ReferenceSlug(e.title) \o <<"-">> \o x

\* The upper-case letters that occur.
UpperCase == {"A", "B", "M", "P"}

\* s without the whitespace at its ends, in lower case.
TrimmedLowerCase(s) ==
    LET inked == {i \in 1..Len(s) : s[i] \notin Whitespace} IN
    IF inked = {} THEN <<>>
    ELSE LET first == CHOOSE i \in inked : \A j \in inked : i <= j
             last == CHOOSE i \in inked : \A j \in inked : i >= j
         IN [i \in 1..(last - first + 1) |-> toLowerCaseChar(s[first + i - 1])]

\* local-part@domain-with-a-dot: no whitespace, one at sign with something
\* before it, and after it a dot with something on both sides.
IsEmailAddress(s) ==
    /\ \A i \in 1..Len(s) : s[i] \notin Whitespace
    /\ Cardinality({i \in 1..Len(s) : s[i] = "@"}) = 1
    /\ LET at == CHOOSE i \in 1..Len(s) : s[i] = "@" IN
       /\ at > 1
       /\ \E dot \in (at + 2)..(Len(s) - 1) : s[dot] = "."

\* A finished creation of a booking.
BookingDone(p) ==
    procs[p].pc = "done" /\ procs[p].isNew /\ procs[p].eventId # 0

\* C18: the email of every persisted booking is the submitted one trimmed and
\* in lower case, has no upper-case letter and is an email address; a booking
\* creation whose trimmed, lower-cased email is not one ends with the
\* validation error and persists nothing.
C18_StoredEmailNormalized ==
    /\ \A b \in bookings :
          /\ b.email = TrimmedLowerCase(form.email)
          /\ \A i \in 1..Len(b.email) : b.email[i] \notin UpperCase
          /\ IsEmailAddress(b.email)
    /\ ~IsEmailAddress(TrimmedLowerCase(form.email))
       => /\ bookings = {}
          /\ \A p \in Procs :
                BookingDone(p) => procs[p].result = "validation_error"

\* The booking submitted with "A@b.y " is stored with "a@b.y".
C18_Witness ==
    /\ form.email = TrailingSpace
    /\ \E b \in bookings : b.email = <<"a", "@", "b", ".", "y">>

\* C19: when MONGODB_URI is not defined, the module fails to load (mongodb.ts)
\* or every call ends with the configuration error (part_001); no connect
\* attempt is started and cached.conn and cached.promise stay null.
C19_NoUriNoConnect ==
    ~uriDefined
    => /\ attempts = <<>>
       /\ cachedConn = 0
       /\ cachedPromise = 0
       /\ (connRev = "mongodb_ts" /\ module # "unloaded") => module = "failed"
       /\ \A c \in Callers :
             /\ callers[c].pc # "await"
             /\ callers[c].pc = "done" => callers[c].result = "config_error"

\* Without the URI, a call of the part_001 revision has ended with the
\* configuration error and the cache is as it was.
C19_Witness ==
    /\ ~uriDefined
    /\ connRev = "part_001"
    /\ \E c \in Callers : callers[c].pc = "done" /\ callers[c].result = "config_error"
    /\ cachedConn = 0 /\ cachedPromise = 0 /\ attempts = <<>>

\* The connect attempts in flight.
InFlight == {a \in 1..Len(attempts) : attempts[a].state = "pending"}

\* C20: in the revision whose failure handler clears cached.promise, at most
\* one connect attempt is in flight, and an attempt in flight is the one
\* cached.promise holds (no failure handler of an older attempt cleared it).
C20_OneAttemptInFlight ==
    connRev = "part_001"
    => /\ Cardinality(InFlight) <= 1
       /\ \A a \in InFlight : cachedPromise = a

\* The existence queries a save has issued so far while it is in the retry
\* loop: one per iteration entered, the pending one included.
QueriesIssued(p) == procs[p].attempt + 1

\* The retry loop issues at most maxAttempts queries per save: the first for
\* the base slug, every later one for a suffixed candidate.
C21_AtMostMaxAttemptsQueries ==
    \A p \in Procs :
        procs[p].pc = "query" =>
            /\ QueriesIssued(p) <= MaxAttempts
            /\ (QueriesIssued(p) = 1) = (procs[p].candidate = BaseSlug(procs[p].title))

\* A step of the retry loop that changes the slug assigns the candidate that
\* was queried in that step, and the query found no match.
C21_AssignedAfterOwnQuery ==
    \A p \in Procs :
        (procs[p].pc = "query" /\ procs'[p].slug # procs[p].slug) =>
            /\ procs'[p].slug = procs[p].candidate
            /\ ~SlugExists(procs[p].candidate, procs[p].id)

\* C21: the retry loop of the event pre-save hook always terminates and issues
\* at most 5 existence queries per save (the base slug plus at most 4 suffixed
\* candidates), whatever the store contains, and a candidate is assigned as the
\* slug only after the existence query for that exact candidate found no match.
C21_RetryLoopBounded ==
    /\ []C21_AtMostMaxAttemptsQueries
    /\ [][C21_AssignedAfterOwnQuery]_vars
    /\ \A p \in Procs : (procs[p].pc = "query") ~> (procs[p].pc # "query")

\* A creation whose base slug and four suffixed candidates all collided: five
\* queries were issued and the loop was left without a slug.
C21_Witness ==
    \E p \in Procs :
        /\ procs[p].pc = "done"
        /\ procs[p].isNew
        /\ procs[p].result = "slug_error"

====
